---- MODULE Spec2Model ----
(***************************************************************************)
(* A model of pretty_csv_diff.PrettyCsvDiff: two CSV tables are read, the  *)
(* rows of each are sorted by primary key, and do() merges the two sorted  *)
(* row lists into a stream of formatted rows (header, separators, '<' rows *)
(* of the first file and '>' rows of the second).                          *)
(*                                                                         *)
(* Text is modelled as the sequence of its code points, so that padding,   *)
(* the ANSI style codes, str.isdecimal(), int() and the lexical order of   *)
(* strings are computed and not assumed.  Column numbers are 0-based as in *)
(* the source; a row r holds column k at r[k + 1].                         *)
(***************************************************************************)
EXTENDS Integers, Sequences, FiniteSets, TLC

VARIABLES header, maxlen, pks, data_a, data_b,   \* fields of PrettyCsvDiff
          pc,                                    \* position of the generator do()
          i, j, previous,                        \* locals of do()
          out,                                   \* the rows do() has yielded
          hist,                                  \* for each yielded row, where it came from
          steps,                                 \* loop iterations of do() completed
          run, first                             \* which call of do(), and what the first yielded

vars == <<header, maxlen, pks, data_a, data_b, pc, i, j, previous, out, hist, steps,
          run, first>>

---------------------------------------------------------------------------
(* Bounds and the inputs drawn within them *)

MaxRows == 2

\* The rows a file may hold.  Among them: two spellings of one number (9,
\* 09), numbers whose numeric and lexical orders differ (9, 10), keys that
\* are no numbers (x and the empty text), and rows that differ only outside
\* the first column
Rows ==
  { << <<57>>, <<97>> >>,          \* 9,a
    << <<48, 57>>, <<97>> >>,      \* 09,a
    << <<57>>, <<98>> >>,          \* 9,b
    << <<49, 48>>, <<97>> >>,      \* 10,a
    << <<120>>, <<97>> >>,         \* x,a
    << <<>>, <<98>> >> }           \* ,b

\* The header line: wider than some fields of its column, narrower than others
Headers ==
  { << <<107>>, <<118>> >> }       \* k,v

\* The pk argument: column numbers as text, or column names
PkArgs ==
  { <<>>,
    << <<48>> >>,                  \* 0
    << <<48>>, <<118>> >> }        \* 0,v

\* The sequences of at most n different members of S
RECURSIVE SeqsUpTo(_, _)
SeqsUpTo(S, n) ==
  IF n = 0 THEN {<<>>}
  ELSE LET shorter == SeqsUpTo(S, n - 1)
           longest == {t \in shorter : Len(t) = n - 1}
       IN  shorter \cup {Append(t, x) : <<t, x>> \in
                           {tx \in longest \X S : \A m \in 1..(n - 1) : tx[1][m] # tx[2]}}

\* The data lines of a file: at most MaxRows lines, no line twice
Files == SeqsUpTo(Rows, MaxRows)

\* Longer files over fewer rows: three numeric keys in a row, the middle
\* one with two different rows
MaxLongRows == 3

LongRows ==
  { << <<56>>, <<97>> >>,          \* 8,a
    << <<57>>, <<97>> >>,          \* 9,a
    << <<57>>, <<98>> >>,          \* 9,b
    << <<49, 48>>, <<97>> >> }     \* 10,a

LongFiles == SeqsUpTo(LongRows, MaxLongRows)

---------------------------------------------------------------------------
(* Strings *)

Min(a, b) == IF a < b THEN a ELSE b
Max(a, b) == IF a > b THEN a ELSE b

\* str.isdecimal(): a non-empty string of decimal digits
isdecimal(s) == Len(s) > 0 /\ \A n \in 1..Len(s) : s[n] >= 48 /\ s[n] <= 57

\* int(s) of a decimal string
RECURSIVE int(_)
int(s) == IF s = <<>> THEN 0
          ELSE 10 * int(SubSeq(s, 1, Len(s) - 1)) + (s[Len(s)] - 48)

\* s < t for two strings: by code point at the first difference, else by length
StrLt(s, t) ==
  LET common == Min(Len(s), Len(t))
      differ == {n \in 1..common : s[n] # t[n]}
  IN  IF differ = {} THEN Len(s) < Len(t)
      ELSE LET n == CHOOSE m \in differ : \A o \in differ : m <= o
           IN  s[n] < t[n]

\* ' ' * n and '-' * n (empty when n <= 0)
Repeat(c, n) == [m \in 1..n |-> c]

---------------------------------------------------------------------------
(* Keys and their comparison *)

\* A key component is an int, a str, or an AlwaysGreater instance
IntItem(n) == [t |-> "int", n |-> n, s |-> <<>>]
StrItem(s) == [t |-> "str", n |-> 0, s |-> s]
AlwaysGreater == [t |-> "ag", n |-> 0, s |-> <<>>]

\* A variant of KeyField that keeps every field as text
KeyField_as_text(f) == StrItem(f)

\* _get_pk: the key of a row under the resolved key columns ks
KeyField(f) == IF isdecimal(f) THEN IntItem(int(f)) ELSE StrItem(f)
_get_pk(ks, row) == [n \in 1..Len(ks) |-> KeyField(row[ks[n] + 1])]

\* A variant of ItemEq in which AlwaysGreater.__eq__ returns True
ItemEq_sentinel_equal(x, y) ==
  \/ x.t = "ag"
  \/ y.t = "ag"
  \/ (x.t = y.t /\ x.n = y.n /\ x.s = y.s)

\* x == y: AlwaysGreater.__eq__ is always False, an int never equals a str
ItemEq(x, y) == /\ x.t # "ag"
                /\ x.t = y.t
                /\ x.n = y.n
                /\ x.s = y.s

\* x < y and x > y raise TypeError between an int and a str
ItemRaises(x, y) == {x.t, y.t} = {"int", "str"}

\* A variant of ItemLt without the reflected call: a real component is not
\* less than an AlwaysGreater
ItemLt_unreflected(x, y) ==
  IF x.t = "ag" \/ y.t = "ag" THEN FALSE
  ELSE IF x.t = "int" THEN x.n < y.n
  ELSE StrLt(x.s, y.s)

\* x < y: AlwaysGreater.__lt__ is always False; int and str do not know
\* AlwaysGreater, so Python asks the reflected AlwaysGreater.__gt__(x)
ItemLt(x, y) ==
  IF x.t = "ag" THEN FALSE
  ELSE IF y.t = "ag" THEN TRUE
  ELSE IF x.t = "int" THEN x.n < y.n
  ELSE StrLt(x.s, y.s)

\* x > y: AlwaysGreater.__gt__ is False against another AlwaysGreater and
\* True otherwise; against a real x > AlwaysGreater Python asks the
\* reflected AlwaysGreater.__lt__(x), which is False
ItemGt(x, y) ==
  IF x.t = "ag" THEN y.t # "ag"
  ELSE IF y.t = "ag" THEN FALSE
  ELSE IF x.t = "int" THEN x.n > y.n
  ELSE StrLt(y.s, x.s)

\* Python compares two lists at the first position where the items are not
\* ==, and by length when there is none (0 here)
FirstDiff(a, b) ==
  LET differ == {n \in 1..Min(Len(a), Len(b)) : ~ItemEq(a[n], b[n])}
  IN  IF differ = {} THEN 0 ELSE CHOOSE m \in differ : \A o \in differ : m <= o

ListRaises(a, b) ==
  LET n == FirstDiff(a, b) IN n # 0 /\ ItemRaises(a[n], b[n])

ListLt(a, b) ==
  LET n == FirstDiff(a, b)
  IN  IF n = 0 THEN Len(a) < Len(b) ELSE ItemLt(a[n], b[n])

ListGt(a, b) ==
  LET n == FirstDiff(a, b)
  IN  IF n = 0 THEN Len(a) > Len(b) ELSE ItemGt(a[n], b[n])

ListEq(a, b) == Len(a) = Len(b) /\ FirstDiff(a, b) = 0

---------------------------------------------------------------------------
(* __init__ and _read *)

\* The resolved key columns: a decimal argument is a column number, any
\* other is looked up in the header (header.index raises when it is absent)
ResolveRaises(hdr, args) ==
  \E n \in 1..Len(args) :
    ~isdecimal(args[n]) /\ \A c \in 1..Len(hdr) : hdr[c] # args[n]

ResolvePk(hdr, arg) ==
  IF isdecimal(arg) THEN int(arg)
  ELSE (CHOOSE c \in 1..Len(hdr) :
          hdr[c] = arg /\ \A d \in 1..Len(hdr) : hdr[d] = arg => c <= d) - 1

ResolvePks(hdr, args) == [n \in 1..Len(args) |-> ResolvePk(hdr, args[n])]

\* A variant of WidenBy that keeps the widths as they are
WidenBy_unchanged(ml, row) == ml

\* [max(pair) for pair in zip(map(len, row), self._maxlen)]
WidenBy(ml, row) == [k \in 1..Min(Len(row), Len(ml)) |-> Max(Len(row[k]), ml[k])]

\* self._maxlen after the rows of one file were read
RECURSIVE Widen(_, _)
Widen(ml, rows) ==
  IF rows = <<>> THEN ml ELSE Widen(WidenBy(ml, Head(rows)), Tail(rows))

\* data.sort(key=self._get_pk) raises TypeError when two of the keys cannot
\* be ordered: the rows that agree up to such a position end up next to each
\* other, so the sort has to compare an int with a str
SortRaises(ks, rows) ==
  \E p, q \in 1..Len(rows) :
    p < q /\ ListRaises(_get_pk(ks, rows[p]), _get_pk(ks, rows[q]))

\* A variant of SortByPk that leaves the rows in file order
SortByPk_file_order(ks, rows) == rows

\* The sort is stable: a row goes behind every row whose key is not greater
Insert(ks, sorted, row) ==
  LET behind == {n \in 1..Len(sorted) :
                   ListLt(_get_pk(ks, row), _get_pk(ks, sorted[n]))}
      at == IF behind = {} THEN Len(sorted) + 1
            ELSE CHOOSE m \in behind : \A o \in behind : m <= o
  IN  SubSeq(sorted, 1, at - 1) \o <<row>> \o SubSeq(sorted, at, Len(sorted))

RECURSIVE SortByPk(_, _)
SortByPk(ks, rows) ==
  IF rows = <<>> THEN <<>>
  ELSE Insert(ks, SortByPk(ks, SubSeq(rows, 1, Len(rows) - 1)), rows[Len(rows)])

---------------------------------------------------------------------------
(* _formatted *)

BOLD  == <<27, 91, 49, 109>>        \* '\x1b[1m'
RED   == <<27, 91, 52, 49, 109>>    \* '\x1b[41m'
GREEN == <<27, 91, 52, 50, 109>>    \* '\x1b[42m'
RESET == <<27, 91, 48, 109>>        \* '\x1b[0m'

Blank == <<32>>   \* ' '
Left  == <<60>>   \* '<'
Right == <<62>>   \* '>'

\* diff is None or a list of booleans; None is written <<>> here, which every
\* use of diff ("not diff", "diff and any(diff)") treats like the empty list
None == <<>>

InPks(ks, k) == \E n \in 1..Len(ks) : ks[n] = k

\* A variant of colorize that reads "diff and diff[k]" for "not diff or
\* diff[k]": a row without a diff vector gets no background
colorize_needs_diff(prefix, row, diff, ks, ml, k) ==
  LET bg  == IF prefix \in {Left, Right} /\ diff # <<>> /\ diff[k + 1]
             THEN (IF prefix = Left THEN RED ELSE GREEN)
             ELSE <<>>
      sgr == bg \o (IF InPks(ks, k) THEN BOLD ELSE <<>>)
      padding == Repeat(32, ml[k + 1] - Len(row[k + 1]))
  IN  sgr \o row[k + 1] \o padding \o (IF sgr # <<>> THEN RESET ELSE <<>>)

\* colorize(k) for column k (0-based) of row
colorize(prefix, row, diff, ks, ml, k) ==
  LET bg  == IF prefix \in {Left, Right} /\ (diff = <<>> \/ diff[k + 1])
             THEN (IF prefix = Left THEN RED ELSE GREEN)
             ELSE <<>>
      sgr == bg \o (IF InPks(ks, k) THEN BOLD ELSE <<>>)
      padding == Repeat(32, ml[k + 1] - Len(row[k + 1]))
  IN  sgr \o row[k + 1] \o padding \o (IF sgr # <<>> THEN RESET ELSE <<>>)

\* (prefix,) + tuple(colorize(k) for k in range(len(row)))
_formatted(prefix, row, diff, ks, ml) ==
  <<prefix>> \o [c \in 1..Len(row) |-> colorize(prefix, row, diff, ks, ml, c - 1)]

---------------------------------------------------------------------------
(* The state after PrettyCsvDiff(path, pk) *)

loaded == <<header, maxlen, pks, data_a, data_b>>

\* The object built from a header line, the pk argument and the data lines
\* of the two files
__init__(hdr, args, file_a, file_b) ==
  LET failed == ResolveRaises(hdr, args)
      ks == IF failed THEN <<>> ELSE ResolvePks(hdr, args)
      raises == \/ failed
                \/ SortRaises(ks, file_a)
                \/ SortRaises(ks, file_b)
  IN  /\ header = hdr
      /\ pks = ks
      \* the header line of the second file is read and dropped
      /\ maxlen = Widen(Widen([k \in 1..Len(hdr) |-> Len(hdr[k])], file_a), file_b)
      /\ data_a = IF raises THEN <<>> ELSE SortByPk(ks, file_a)
      /\ data_b = IF raises THEN <<>> ELSE SortByPk(ks, file_b)
      /\ pc = IF raises THEN "error" ELSE "ready"
      /\ i = 0
      /\ j = 0
      /\ previous = None
      /\ out = <<>>
      /\ hist = <<>>
      /\ steps = 0
      /\ run = 1
      /\ first = <<>>

Init ==
  \E hdr \in Headers, args \in PkArgs, file_a \in Files, file_b \in Files :
    __init__(hdr, args, file_a, file_b)

---------------------------------------------------------------------------
(* do() *)

\* What one yielded row was made from: the header, a separator, or row idx
\* (0-based) of a table, in loop iteration step, classified cls
Origin(tag, cls, idx, step) == [tag |-> tag, cls |-> cls, idx |-> idx, step |-> step]

\* A variant of Start in which the cursors outlive the call (as attributes
\* of the object would) and are not set back
Start_keeps_cursors ==
  /\ pc = "ready"
  /\ out' = <<_formatted(Blank, header, None, pks, maxlen)>>
  /\ hist' = <<Origin("header", "-", 0, 0)>>
  /\ steps' = 0
  /\ pc' = "loop"
  /\ UNCHANGED <<loaded, i, j, previous, run, first>>

\* do() up to its first yield
Start ==
  /\ pc = "ready"
  /\ out' = <<_formatted(Blank, header, None, pks, maxlen)>>
  /\ hist' = <<Origin("header", "-", 0, 0)>>
  /\ i' = 0
  /\ j' = 0
  /\ previous' = None
  /\ steps' = 0
  /\ pc' = "loop"
  /\ UNCHANGED <<loaded, run, first>>

pk_a == IF i < Len(data_a) THEN _get_pk(pks, data_a[i + 1]) ELSE <<AlwaysGreater>>
pk_b == IF j < Len(data_b) THEN _get_pk(pks, data_b[j + 1]) ELSE <<AlwaysGreater>>

next_a  == ListLt(pk_a, pk_b)
next_b  == ListGt(pk_a, pk_b)
next_ab == ListEq(pk_a, pk_b)

\* A variant of RowDiff with the comparison inverted (a == b)
RowDiff_inverted(row_a, row_b) ==
  [k \in 1..(IF Len(row_a) < Len(row_b) THEN Len(row_a) ELSE Len(row_b)) |->
     row_a[k] = row_b[k]]

\* A variant of RowDiff that compares the first column only
RowDiff_first_column(row_a, row_b) ==
  [k \in 1..Min(Len(row_a), Len(row_b)) |-> k = 1 /\ row_a[k] # row_b[k]]

\* [a != b for a, b in zip(row_a, row_b)]
RowDiff(row_a, row_b) ==
  [k \in 1..Min(Len(row_a), Len(row_b)) |-> row_a[k] # row_b[k]]

diff == IF next_ab THEN RowDiff(data_a[i + 1], data_b[j + 1]) ELSE None

\* A variant of diff_ab with all(diff) for any(diff)
diff_ab_all == diff # <<>> /\ \A k \in 1..Len(diff) : diff[k]

diff_ab == diff # <<>> /\ \E k \in 1..Len(diff) : diff[k]

current == <<next_a, next_b>>

\* A variant of separator without "(next_a or next_b) and": any change of
\* the transition type asks for a separator
separator_on_any_change == previous # current \/ diff_ab

\* A variant of separator without "or diff_ab"
separator_on_change_only == (next_a \/ next_b) /\ previous # current

separator == ((next_a \/ next_b) /\ previous # current) \/ diff_ab

\* The comparison of the keys raises TypeError, or a row is read past the
\* end of its table (IndexError)
StepRaises ==
  \/ ListRaises(pk_a, pk_b)
  \/ (next_a \/ next_ab) /\ i >= Len(data_a)
  \/ (next_b \/ next_ab) /\ j >= Len(data_b)

class == IF next_ab THEN "ab" ELSE IF next_a THEN "a" ELSE IF next_b THEN "b" ELSE "-"

Separator ==
  IF separator
  THEN <<_formatted(Blank, [k \in 1..Len(maxlen) |-> Repeat(45, maxlen[k])],
                    None, pks, maxlen)>>
  ELSE <<>>

\* A variant of LeftRow that yields the row of A only for a differing pair
LeftRow_differing_only ==
  IF (next_a \/ next_ab) /\ diff_ab
  THEN <<_formatted(Left, data_a[i + 1], diff, pks, maxlen)>>
  ELSE <<>>

LeftRow ==
  IF (next_a \/ next_ab) /\ (next_a \/ diff_ab)
  THEN <<_formatted(Left, data_a[i + 1], diff, pks, maxlen)>>
  ELSE <<>>

\* A variant of RightRow that yields the row of B only when its key is
\* missing from A
RightRow_unmatched_only ==
  IF next_b
  THEN <<_formatted(Right, data_b[j + 1], diff, pks, maxlen)>>
  ELSE <<>>

RightRow ==
  IF (next_b \/ next_ab) /\ (next_b \/ diff_ab)
  THEN <<_formatted(Right, data_b[j + 1], diff, pks, maxlen)>>
  ELSE <<>>

\* A variant of LoopCond with "and" for "or"
LoopCond_both == i < Len(data_a) /\ j < Len(data_b)

\* while i < len(self._data_a) or j < len(self._data_b)
LoopCond == i < Len(data_a) \/ j < Len(data_b)

\* One iteration of the while loop, with the rows it yields
Step ==
  /\ pc = "loop"
  /\ LoopCond
  /\ IF StepRaises
     THEN /\ pc' = "error"
          /\ UNCHANGED <<i, j, previous, out, hist, steps>>
     ELSE /\ out' = out \o Separator \o LeftRow \o RightRow
          /\ hist' = hist
               \o (IF Separator # <<>> THEN <<Origin("sep", class, 0, steps + 1)>> ELSE <<>>)
               \o (IF LeftRow # <<>> THEN <<Origin("<", class, i, steps + 1)>> ELSE <<>>)
               \o (IF RightRow # <<>> THEN <<Origin(">", class, j, steps + 1)>> ELSE <<>>)
          /\ previous' = IF separator THEN current ELSE previous
          /\ i' = IF next_a \/ next_ab THEN i + 1 ELSE i
          /\ j' = IF next_b \/ next_ab THEN j + 1 ELSE j
          /\ steps' = steps + 1
          /\ pc' = "loop"
  /\ UNCHANGED <<loaded, run, first>>

\* A variant of Finish in which the exhausted generator lets go of the rows
Finish_drops_tables ==
  /\ pc = "loop"
  /\ ~LoopCond
  /\ pc' = "done"
  /\ data_a' = <<>>
  /\ data_b' = <<>>
  /\ i' = 0
  /\ j' = 0
  /\ UNCHANGED <<header, maxlen, pks, previous, out, hist, steps, run, first>>

\* The loop condition is false: the generator is exhausted
Finish ==
  /\ pc = "loop"
  /\ ~LoopCond
  /\ pc' = "done"
  /\ UNCHANGED <<loaded, i, j, previous, out, hist, steps, run, first>>

\* do() is called a second time on the same object
Again ==
  /\ pc = "done"
  /\ run = 1
  /\ run' = 2
  /\ first' = out
  /\ pc' = "ready"
  /\ out' = <<>>
  /\ hist' = <<>>
  /\ UNCHANGED <<loaded, i, j, previous, steps>>

Next == Start \/ Step \/ Finish

Spec == Init /\ [][Next]_vars

\* The same program on the longer files
InitLong ==
  \E hdr \in Headers, args \in PkArgs, file_a \in LongFiles, file_b \in LongFiles :
    __init__(hdr, args, file_a, file_b)

SpecLong == InitLong /\ [][Next]_vars

NextTwice == Next \/ Again

SpecTwice == Init /\ [][NextTwice]_vars

\* The consumer takes every row do() yields (for row in obj.do(): ...)
FairSpec == Spec /\ WF_vars(Next)

---------------------------------------------------------------------------
(* Vocabulary of the properties *)

\* Something was yielded: do() has run to its first yield at least
Yielding == out # <<>>

\* Two rows have the same key: in every key column both fields are decimal
\* numerals of the same value, or the same text that is no decimal numeral
SameKey(r, s) ==
  \A n \in 1..Len(pks) :
    LET x == r[pks[n] + 1]
        y == s[pks[n] + 1]
    IN  IF isdecimal(x) /\ isdecimal(y) THEN int(x) = int(y) ELSE x = y

\* The places of out where row idx (0-based) of a table was yielded as tag
Emitted(tag, idx) == {n \in 1..Len(hist) : hist[n].tag = tag /\ hist[n].idx = idx}

HasPrefix(cell, code) == Len(cell) >= Len(code) /\ SubSeq(cell, 1, Len(code)) = code

\* The cell carries a background highlight (of either colour)
Highlighted(cell) == HasPrefix(cell, RED) \/ HasPrefix(cell, GREEN)

\* Every column of the n-th yielded row carries the background code
AllColumns(n, code) == \A c \in 2..Len(out[n]) : HasPrefix(out[n][c], code)

OnlyInA(p) == \A q \in 1..Len(data_b) : ~SameKey(data_a[p], data_b[q])
OnlyInB(q) == \A p \in 1..Len(data_a) : ~SameKey(data_a[p], data_b[q])

\* The rows before position p of a table that have the key of row p
Rank(data, p) == Cardinality({r \in 1..(p - 1) : SameKey(data[r], data[p])})

---------------------------------------------------------------------------
(* C1 *)

\* C1: when the two tables are identical, do() yields the header row and
\* nothing else: no '<' row, no '>' row, no separator, and it ends.
C1_IdenticalTablesYieldHeaderOnly ==
  data_a = data_b =>
    /\ Len(out) <= 1
    /\ \A n \in 1..Len(out) : hist[n].tag = "header" /\ out[n][1] = Blank
    /\ pc = "done" => Len(out) = 1
    /\ pc = "error" => steps = 0 /\ out = <<>>

C1_Witness ==
  /\ pc = "done"
  /\ data_a = data_b
  /\ Len(data_a) >= 2
  /\ pks # <<>>
  /\ steps = Len(data_a)
  /\ Len(out) = 1

---------------------------------------------------------------------------
(* C2 *)

\* C2: a row of A whose key is the key of no row of B is yielded exactly
\* once it is consumed, as a '<' row whose every column carries the left
\* (red) background, and no '>' row has its key; symmetrically a row of B
\* whose key is in no row of A is yielded exactly once, as a '>' row whose
\* every column carries the right (green) background.
C2_UnmatchedRowsOnceFullyHighlighted ==
  Yielding =>
    /\ \A p \in 1..Len(data_a) :
         OnlyInA(p) =>
           /\ Cardinality(Emitted("<", p - 1)) = (IF p <= i THEN 1 ELSE 0)
           /\ \A n \in Emitted("<", p - 1) :
                /\ out[n][1] = Left
                /\ Len(out[n]) = Len(data_a[p]) + 1
                /\ AllColumns(n, RED)
           /\ \A n \in 1..Len(out) :
                out[n][1] = Right => ~SameKey(data_b[hist[n].idx + 1], data_a[p])
    /\ \A q \in 1..Len(data_b) :
         OnlyInB(q) =>
           /\ Cardinality(Emitted(">", q - 1)) = (IF q <= j THEN 1 ELSE 0)
           /\ \A n \in Emitted(">", q - 1) :
                /\ out[n][1] = Right
                /\ Len(out[n]) = Len(data_b[q]) + 1
                /\ AllColumns(n, GREEN)
           /\ \A n \in 1..Len(out) :
                out[n][1] = Left => ~SameKey(data_a[hist[n].idx + 1], data_b[q])

C2_Witness ==
  /\ pc = "done"
  /\ \E p \in 1..Len(data_a) : OnlyInA(p) /\ Emitted("<", p - 1) # {}
  /\ \E q \in 1..Len(data_b) : OnlyInB(q) /\ Emitted(">", q - 1) # {}
  /\ \E p \in 1..Len(data_a) : ~OnlyInA(p)

---------------------------------------------------------------------------
(* C3 *)

\* Row p of A and row q of B were yielded next to each other, '<' then '>',
\* with a background on exactly the columns where their texts differ
YieldedAsPair(p, q) ==
  \E n \in 1..(Len(out) - 1) :
    /\ hist[n].tag = "<" /\ hist[n].idx = p - 1
    /\ hist[n + 1].tag = ">" /\ hist[n + 1].idx = q - 1
    /\ out[n][1] = Left
    /\ out[n + 1][1] = Right
    /\ \A c \in 1..Len(data_a[p]) :
         /\ HasPrefix(out[n][c + 1], RED) <=> data_a[p][c] # data_b[q][c]
         /\ HasPrefix(out[n + 1][c + 1], GREEN) <=> data_a[p][c] # data_b[q][c]
         /\ Highlighted(out[n][c + 1]) <=> data_a[p][c] # data_b[q][c]
         /\ Highlighted(out[n + 1][c + 1]) <=> data_a[p][c] # data_b[q][c]

\* C3 as stated: every row of A and row of B with equal keys that differ in
\* a field are yielded next to each other, '<' then '>', highlighted on
\* exactly the differing columns.
C3_EveryEqualKeyPairYielded ==
  pc = "done" /\ pks # <<>> =>
    \A p \in 1..Len(data_a), q \in 1..Len(data_b) :
      SameKey(data_a[p], data_b[q]) /\ data_a[p] # data_b[q] => YieldedAsPair(p, q)

\* C3, amended: the rows of a key pair up in order (the first row of A with
\* a key with the first row of B with that key, and so on).  Every such pair
\* that differs in a field is yielded, once both rows are consumed, as a '<'
\* row immediately followed by the '>' row, each highlighted on exactly the
\* columns where the two texts differ.
C3_AlignedPairsYieldedAdjacent ==
  Yielding =>
    \A p \in 1..Len(data_a), q \in 1..Len(data_b) :
      /\ SameKey(data_a[p], data_b[q])
      /\ Rank(data_a, p) = Rank(data_b, q)
      /\ data_a[p] # data_b[q]
      => /\ p <= i <=> q <= j
         /\ p <= i => YieldedAsPair(p, q)
         /\ Cardinality(Emitted("<", p - 1)) = (IF p <= i THEN 1 ELSE 0)
         /\ Cardinality(Emitted(">", q - 1)) = (IF q <= j THEN 1 ELSE 0)

C3_Witness ==
  /\ pc = "done"
  /\ \E p \in 1..Len(data_a), q \in 1..Len(data_b) :
       /\ SameKey(data_a[p], data_b[q])
       /\ Rank(data_a, p) = Rank(data_b, q)
       /\ \E c \in 1..Len(data_a[p]) : data_a[p][c] # data_b[q][c]
       /\ \E c \in 1..Len(data_a[p]) : data_a[p][c] = data_b[q][c]
       /\ YieldedAsPair(p, q)

---------------------------------------------------------------------------
(* C4 *)

\* The n-th yielded row is a '<' or '>' row of a step that found equal keys
MatchedRowAt(n) == hist[n].tag \in {"<", ">"} /\ hist[n].cls = "ab"

\* C4: in every '<' or '>' row yielded for two rows with equal keys, the
\* cells of the key columns carry no background highlight, only the bold
\* emphasis.
C4_KeyCellsNeverHighlighted ==
  \A n \in 1..Len(out) :
    MatchedRowAt(n) =>
      \A k \in 1..Len(pks) :
        /\ ~Highlighted(out[n][pks[k] + 2])
        /\ HasPrefix(out[n][pks[k] + 2], BOLD)

---------------------------------------------------------------------------
(* C5 *)

IsRowAt(n) == hist[n].tag \in {"<", ">"}

\* The row of the table that the n-th yielded row shows
RowAt(n) == IF hist[n].tag = "<" THEN data_a[hist[n].idx + 1] ELSE data_b[hist[n].idx + 1]

\* m and n are '<' or '>' rows with no '<' or '>' row between them
NextRows(m, n) ==
  /\ m < n
  /\ IsRowAt(m)
  /\ IsRowAt(n)
  /\ \A o \in (m + 1)..(n - 1) : ~IsRowAt(o)

\* C5: the keys of the '<' and '>' rows yielded so far never decrease, by
\* the comparison do() itself uses, and a row only in A and a row only in B
\* that follow each other have strictly increasing keys.
C5_KeysNeverDecrease ==
  \A m, n \in 1..Len(hist) :
    NextRows(m, n) =>
      LET key_m == _get_pk(pks, RowAt(m))
          key_n == _get_pk(pks, RowAt(n))
      IN  /\ ~ListRaises(key_m, key_n)
          /\ ~ListGt(key_m, key_n)
          /\ {hist[m].cls, hist[n].cls} = {"a", "b"} => ListLt(key_m, key_n)

\* A row only in B was yielded between two rows only in A
C5_Witness ==
  /\ pc = "done"
  /\ \E m, n, o \in 1..Len(hist) :
       /\ NextRows(m, n) /\ hist[m].cls = "a" /\ hist[n].cls = "b"
       /\ NextRows(n, o) /\ hist[o].cls = "a"

---------------------------------------------------------------------------
(* C6 *)

\* C6: do() terminates.  Every iteration moves i or j or both forward by
\* exactly one and never past the end of its table, so there are at most
\* len(A) + len(B) iterations, and the loop ends exactly when i = len(A)
\* and j = len(B).
C6_Terminates ==
  /\ [](/\ i <= Len(data_a)
        /\ j <= Len(data_b)
        /\ steps <= Len(data_a) + Len(data_b)
        /\ pc = "done" => i = Len(data_a) /\ j = Len(data_b))
  /\ [][/\ pc = "loop" /\ pc' = "loop" =>
             /\ i' \in {i, i + 1}
             /\ j' \in {j, j + 1}
             /\ i' + j' > i + j
             /\ steps' = steps + 1
        /\ pc = "loop" /\ i = Len(data_a) /\ j = Len(data_b) => pc' = "done"]_vars
  /\ <>(pc \in {"done", "error"})

C6_Witness ==
  /\ pc = "done"
  /\ Len(data_a) >= 2
  /\ Len(data_b) >= 2
  /\ steps = Len(data_a) + Len(data_b) - 1

---------------------------------------------------------------------------
(* C7 *)

\* C7: between a row only in A and a row only in B that follow each other
\* (in either order) lies a separator, and the '<' row of every differing
\* pair comes right after a separator.
C7_SeparatorsWhereRequired ==
  /\ \A m, n \in 1..Len(hist) :
       NextRows(m, n) /\ {hist[m].cls, hist[n].cls} = {"a", "b"} =>
         /\ hist[n - 1].tag = "sep"
         /\ out[n - 1][1] = Blank
  /\ \A n \in 1..Len(hist) :
       hist[n].tag = "<" /\ hist[n].cls = "ab" =>
         /\ n > 1
         /\ hist[n - 1].tag = "sep"
         /\ out[n - 1][1] = Blank
         /\ Len(out[n - 1]) = Len(maxlen) + 1

\* Two differing pairs follow the header, each behind its own separator
C7_Witness ==
  /\ pc = "done"
  /\ Len(hist) >= 7
  /\ hist[2].tag = "sep" /\ hist[3].tag = "<" /\ hist[3].cls = "ab" /\ hist[4].tag = ">"
  /\ hist[5].tag = "sep" /\ hist[6].tag = "<" /\ hist[6].cls = "ab" /\ hist[7].tag = ">"

---------------------------------------------------------------------------
(* C8 *)

\* C8: a second call of do() on the same object yields what the first call
\* yielded: at every point a prefix of it, and all of it when it ends.
C8_SecondRunYieldsTheSame ==
  run = 2 =>
    /\ pc # "error"
    /\ Len(out) <= Len(first)
    /\ out = SubSeq(first, 1, Len(out))
    /\ pc = "done" => out = first

C8_Witness ==
  /\ run = 2
  /\ pc = "done"
  /\ Len(out) >= 6
  /\ out = first

---------------------------------------------------------------------------
(* C9 *)

\* The text of a cell without its style codes (ESC [ ... m)
RECURSIVE Unstyled(_)
Unstyled(cell) ==
  IF cell = <<>> THEN <<>>
  ELSE IF cell[1] = 27
       THEN LET ends == {n \in 1..Len(cell) : cell[n] = 109}
                m == CHOOSE n \in ends : \A o \in ends : n <= o
            IN  Unstyled(SubSeq(cell, m + 1, Len(cell)))
       ELSE <<cell[1]>> \o Unstyled(Tail(cell))

\* The longest text of column c (1-based) in the header and both tables
Widest(c) ==
  LET lens == {Len(header[c])}
                \cup {Len(data_a[p][c]) : p \in 1..Len(data_a)}
                \cup {Len(data_b[q][c]) : q \in 1..Len(data_b)}
  IN  CHOOSE w \in lens : \A l \in lens : l <= w

\* C9: every cell of every yielded row, without its style codes, is as long
\* as the width of its column, which is the longest text of that column in
\* the header and the rows of both tables.
C9_CellsHaveColumnWidth ==
  Yielding =>
    /\ Len(maxlen) = Len(header)
    /\ \A c \in 1..Len(header) : maxlen[c] = Widest(c)
    /\ \A n \in 1..Len(out) :
         /\ Len(out[n]) = Len(header) + 1
         /\ \A c \in 1..Len(header) : Len(Unstyled(out[n][c + 1])) = Widest(c)

\* Header, separator, '<' and '>' rows were yielded; one column is as wide
\* as the header and the other as wide as a field of the second table only
C9_Witness ==
  /\ pc = "done"
  /\ {hist[n].tag : n \in 1..Len(hist)} = {"header", "sep", "<", ">"}
  /\ \E c \in 1..Len(header) : \A p \in 1..Len(data_a) : Len(data_a[p][c]) < maxlen[c]
  /\ \E c \in 1..Len(header) : Len(header[c]) < maxlen[c]
  /\ \E c \in 1..Len(header), p \in 1..Len(data_a) : Len(data_a[p][c]) < Len(header[c])

---------------------------------------------------------------------------
(* C10 *)

\* A text made of decimal digits only, and the number it writes
IsNumeral(s) == s # <<>> /\ \A n \in 1..Len(s) : s[n] \in 48..57

RECURSIVE NumeralValue(_)
NumeralValue(s) ==
  IF s = <<>> THEN 0 ELSE NumeralValue(SubSeq(s, 1, Len(s) - 1)) * 10 + s[Len(s)] - 48

\* s comes before t in lexical order
RECURSIVE LexLess(_, _)
LexLess(s, t) ==
  IF t = <<>> THEN FALSE
  ELSE IF s = <<>> THEN TRUE
  ELSE IF s[1] # t[1] THEN s[1] < t[1]
  ELSE LexLess(Tail(s), Tail(t))

FieldLess(x, y) ==
  IF IsNumeral(x) /\ IsNumeral(y) THEN NumeralValue(x) < NumeralValue(y)
  ELSE IF ~IsNumeral(x) /\ ~IsNumeral(y) THEN LexLess(x, y)
  ELSE FALSE

\* Row r comes before row s: at the first key column where their keys
\* differ, by value for two numerals and lexically for two other texts
RowLess(r, s) ==
  \E n \in 1..Len(pks) :
    /\ FieldLess(r[pks[n] + 1], s[pks[n] + 1])
    /\ \A m \in 1..(n - 1) :
         /\ ~FieldLess(r[pks[m] + 1], s[pks[m] + 1])
         /\ ~FieldLess(s[pks[m] + 1], r[pks[m] + 1])

\* C10: _get_pk makes a key field an integer (its value) exactly when the
\* text is made of decimal digits only and keeps the text otherwise; both
\* tables are sorted, and the rows are yielded, by value for integers and in
\* lexical order for texts.
C10_KeysNumericOrLexical ==
  /\ \A r \in Rows :
       \A n \in 1..Len(pks) :
         LET f == r[pks[n] + 1]
             x == _get_pk(pks, r)[n]
         IN  IF IsNumeral(f)
             THEN x.t = "int" /\ x.n = NumeralValue(f)
             ELSE x.t = "str" /\ x.s = f
  /\ \A p \in 1..(Len(data_a) - 1) : ~RowLess(data_a[p + 1], data_a[p])
  /\ \A q \in 1..(Len(data_b) - 1) : ~RowLess(data_b[q + 1], data_b[q])
  /\ \A m, n \in 1..Len(hist) : NextRows(m, n) => ~RowLess(RowAt(n), RowAt(m))

\* The row keyed 9 of one table was yielded right before the row keyed 10
\* of the other
C10_Witness ==
  /\ pc = "done"
  /\ pks = <<0>>
  /\ \E m, n \in 1..Len(hist) :
       /\ NextRows(m, n)
       /\ RowAt(m)[1] = <<57>>
       /\ RowAt(n)[1] = <<49, 48>>
       /\ hist[m].tag # hist[n].tag

---------------------------------------------------------------------------
(* C11 *)

\* C11: a loop step of do() whose two rows have equal keys and the same
\* text in every field yields nothing (no '<' row, no '>' row, no
\* separator), leaves previous as it is, and moves both i and j forward by
\* one.
C11_IdenticalMatchStepIsSilent ==
  [][/\ pc = "loop"
     /\ i < Len(data_a)
     /\ j < Len(data_b)
     /\ SameKey(data_a[i + 1], data_b[j + 1])
     /\ data_a[i + 1] = data_b[j + 1]
     => /\ out' = out
        /\ hist' = hist
        /\ previous' = previous
        /\ i' = i + 1
        /\ j' = j + 1
        /\ pc' = "loop"]_vars

\* The last step yielded nothing, its two rows are the same, and previous
\* still holds the transition type of an earlier separator
C11_Witness ==
  /\ pc = "loop"
  /\ steps >= 2
  /\ i >= 1
  /\ j >= 1
  /\ data_a[i] = data_b[j]
  /\ \A n \in 1..Len(hist) : hist[n].step # steps
  /\ previous # None
  /\ previous # <<FALSE, FALSE>>

---------------------------------------------------------------------------
(* C12 *)

\* At every position both keys have, the components are of one type (both
\* integers or both texts), or one of them is the sentinel
TypesAgree(a, b) ==
  \A n \in 1..Min(Len(a), Len(b)) :
    a[n].t = "ag" \/ b[n].t = "ag" \/ a[n].t = b[n].t

\* How many of the given booleans are true
CountTrue(bools) == Cardinality({n \in 1..Len(bools) : bools[n]})

\* C12: at every loop step of do() whose two keys have components of the
\* same type at each position, exactly one of next_a, next_b and next_ab is
\* true; this includes the steps where one key is the sentinel of an
\* exhausted table, and keys of several columns.
C12_ExactlyOneTransition ==
  pc = "loop" /\ LoopCond /\ TypesAgree(pk_a, pk_b) =>
    /\ ~ListRaises(pk_a, pk_b)
    /\ CountTrue(<<next_a, next_b, next_ab>>) = 1
    /\ i >= Len(data_a) => next_b
    /\ j >= Len(data_b) => next_a

\* A loop step under a key of two columns with table A exhausted and a row
\* of B left, after a step that found equal keys
C12_Witness ==
  /\ pc = "loop"
  /\ Len(pks) = 2
  /\ i = Len(data_a)
  /\ i >= 1
  /\ j >= 1
  /\ j < Len(data_b)
  /\ SameKey(data_a[i], data_b[j])
  /\ next_b

---------------------------------------------------------------------------
(* C13 *)

\* The key under cursor n of a table, or the sentinel key behind its end
KeyAt(data, n) == IF n < Len(data) THEN _get_pk(pks, data[n + 1]) ELSE <<AlwaysGreater>>

\* The engine C13 compares do() with, after n loop iterations: previous is
\* set only when a separator is yielded for a change of the transition type
\* of an only-in-A or only-in-B step, and left alone when one is yielded for
\* a differing pair
RECURSIVE LazyRun(_)
LazyRun(n) ==
  IF n = 0
  THEN [i |-> 0, j |-> 0, previous |-> None,
        out |-> <<_formatted(Blank, header, None, pks, maxlen)>>]
  ELSE LET s == LazyRun(n - 1)
           ka == KeyAt(data_a, s.i)
           kb == KeyAt(data_b, s.j)
           na == ListLt(ka, kb)
           nb == ListGt(ka, kb)
           nab == ListEq(ka, kb)
           d == IF nab
                THEN [k \in 1..Len(header) |-> data_a[s.i + 1][k] # data_b[s.j + 1][k]]
                ELSE None
           dab == \E k \in 1..Len(d) : d[k]
           change == (na \/ nb) /\ s.previous # <<na, nb>>
           dashes == [k \in 1..Len(maxlen) |-> Repeat(45, maxlen[k])]
       IN  [i |-> IF na \/ nab THEN s.i + 1 ELSE s.i,
            j |-> IF nb \/ nab THEN s.j + 1 ELSE s.j,
            previous |-> IF change THEN <<na, nb>> ELSE s.previous,
            out |-> s.out
                    \o (IF change \/ dab
                        THEN <<_formatted(Blank, dashes, None, pks, maxlen)>> ELSE <<>>)
                    \o (IF na \/ dab
                        THEN <<_formatted(Left, data_a[s.i + 1], d, pks, maxlen)>> ELSE <<>>)
                    \o (IF nb \/ dab
                        THEN <<_formatted(Right, data_b[s.j + 1], d, pks, maxlen)>> ELSE <<>>)]

\* The n-th yielded row belongs to a step that found a row only in A or
\* only in B
UnmatchedAt(n) == hist[n].cls \in {"a", "b"}

\* The n-th yielded row is the separator of an only-in-A (only-in-B) step,
\* and the last only-in-A or only-in-B step before it was of the same kind
RepeatedSeparator(n) ==
  /\ hist[n].tag = "sep"
  /\ UnmatchedAt(n)
  /\ \E m \in 1..(n - 1) :
       /\ hist[m].cls = hist[n].cls
       /\ \A o \in (m + 1)..(n - 1) : ~UnmatchedAt(o)

\* The rows of seq whose place is not in skip
RECURSIVE Without(_, _)
Without(seq, skip) ==
  IF seq = <<>> THEN <<>>
  ELSE Without(SubSeq(seq, 1, Len(seq) - 1), skip)
         \o (IF Len(seq) \in skip THEN <<>> ELSE <<seq[Len(seq)]>>)

\* C13 as stated: do() yields the same rows as the engine that leaves
\* previous alone when a separator is yielded for a differing pair.
C13_SameOutputAsLazyEngine ==
  Yielding => out = LazyRun(steps).out

\* C13, amended: the two engines consume the tables alike, and do() yields
\* what the other engine yields plus a separator before every only-in-A
\* (only-in-B) step that follows a differing pair when the last step with
\* an unmatched row before that pair was of the same kind.  Without such a
\* step the two outputs are the same.
C13_LazyEngineOmitsRepeatedSeparators ==
  Yielding =>
    LET lazy == LazyRun(steps)
        repeated == {n \in 1..Len(hist) : RepeatedSeparator(n)}
    IN  /\ lazy.i = i
        /\ lazy.j = j
        /\ lazy.out = Without(out, repeated)
        /\ repeated = {} <=> lazy.out = out
        /\ \A n \in repeated :
             \E m \in 1..(n - 1) :
               /\ hist[m].cls = "ab"
               /\ \A o \in m..(n - 1) : ~UnmatchedAt(o)

\* A row only in A, a differing pair and another row only in A: do() has
\* yielded a separator that the other engine does not yield
C13_Witness ==
  /\ pc = "done"
  /\ \E n \in 1..Len(hist) : RepeatedSeparator(n)
  /\ Len(LazyRun(steps).out) = Len(out) - 1

---------------------------------------------------------------------------
(* C14 *)

\* C14: keys that hold an integer and a text at the same position are
\* ordered too: exactly one of <, >, == is decided for them, so the sort of
\* each table and every step of the merge end with a result, never with an
\* error.
C14_MixedKeysCompareWithoutError ==
  /\ pc # "error"
  /\ pc = "loop" /\ LoopCond =>
       /\ ~ListRaises(pk_a, pk_b)
       /\ CountTrue(<<next_a, next_b, next_ab>>) = 1

---------------------------------------------------------------------------
(* C15 *)

\* C15: yielding rows never modifies what was loaded.  No step of do(), in
\* the first call or in a second one, changes the two tables, the header,
\* the column widths or the resolved key columns, so at every point where
\* the consumer may stop they are what they were before the call; a step
\* changes only the cursors i and j and previous (and what was yielded).
C15_LoadedStateNeverModified ==
  [][/\ header' = header
     /\ maxlen' = maxlen
     /\ pks' = pks
     /\ data_a' = data_a
     /\ data_b' = data_b]_vars

\* The second call of do() has moved both cursors and set previous, and
\* the first call had run to its end
C15_Witness ==
  /\ run = 2
  /\ pc = "loop"
  /\ i >= 1
  /\ j >= 1
  /\ previous # None
  /\ Len(out) >= 3
  /\ Len(first) > Len(out)

---------------------------------------------------------------------------
(* C16 *)

\* The n-th yielded row is a separator: a row with the blank marker behind
\* the header row
IsSeparator(n) == n > 1 /\ out[n][1] = Blank

\* The n-th yielded row is a '<' or a '>' row
IsDataRow(n) == out[n][1] \in {Left, Right}

\* C16: every separator is immediately followed by a '<' or '>' row, so no
\* two separators follow each other and what was yielded never ends with a
\* separator; and the first row yielded after the header, if there is one,
\* is a separator.
C16_SeparatorThenRow ==
  /\ \A n \in 1..Len(out) :
       IsSeparator(n) =>
         /\ hist[n].tag = "sep"
         /\ n < Len(out)
         /\ IsDataRow(n + 1)
         /\ ~IsSeparator(n + 1)
  /\ Len(out) >= 1 => hist[1].tag = "header" /\ out[1][1] = Blank
  /\ Len(out) >= 2 => IsSeparator(2)

\* Three separators were yielded, one followed by a '<' row and one by a
\* '>' row, and the run has ended
C16_Witness ==
  /\ pc = "done"
  /\ Cardinality({n \in 1..Len(out) : IsSeparator(n)}) >= 3
  /\ \E n \in 1..(Len(out) - 1) : IsSeparator(n) /\ out[n + 1][1] = Left
  /\ \E n \in 1..(Len(out) - 1) : IsSeparator(n) /\ out[n + 1][1] = Right

---------------------------------------------------------------------------
(* C17 *)

\* The loop steps so far that yielded nothing
SilentSteps == {t \in 1..steps : \A n \in 1..Len(hist) : hist[n].step # t}

\* The yielded rows with the given marker
Marked(prefix) == {n \in 1..Len(out) : out[n][1] = prefix}

\* The n-th yielded row shows the fields of row: each cell, without its
\* style codes, is the field followed by blanks
Shows(n, row) ==
  /\ Len(out[n]) = Len(row) + 1
  /\ \A c \in 1..Len(row) :
       LET text == Unstyled(out[n][c + 1])
       IN  /\ Len(text) >= Len(row[c])
           /\ SubSeq(text, 1, Len(row[c])) = row[c]
           /\ \A k \in (Len(row[c]) + 1)..Len(text) : text[k] = 32

\* C17: every row of A and of B is consumed by exactly one loop step and
\* yielded at most once, and a consumed row is left out only together with
\* a row of the other table that has the same text.  The '<' rows yielded
\* are as many as the rows of A consumed less the steps that yielded
\* nothing, and the same for '>' and B (also in a run that a TypeError of
\* the key comparison cuts short); at the end of the loop that is len(A),
\* and len(B), less the number of identical-match steps.
C17_EachRowConsumedOnce ==
  Yielding =>
    /\ \A p \in 1..Len(data_a) :
         /\ Cardinality(Emitted("<", p - 1)) <= 1
         /\ p > i => Emitted("<", p - 1) = {}
         /\ \A n \in Emitted("<", p - 1) : out[n][1] = Left /\ Shows(n, data_a[p])
         /\ p <= i /\ Emitted("<", p - 1) = {} =>
              \E q \in 1..j : data_b[q] = data_a[p] /\ Emitted(">", q - 1) = {}
    /\ \A q \in 1..Len(data_b) :
         /\ Cardinality(Emitted(">", q - 1)) <= 1
         /\ q > j => Emitted(">", q - 1) = {}
         /\ \A n \in Emitted(">", q - 1) : out[n][1] = Right /\ Shows(n, data_b[q])
         /\ q <= j /\ Emitted(">", q - 1) = {} =>
              \E p \in 1..i : data_a[p] = data_b[q] /\ Emitted("<", p - 1) = {}
    /\ Cardinality(Marked(Left)) = i - Cardinality(SilentSteps)
    /\ Cardinality(Marked(Right)) = j - Cardinality(SilentSteps)
    /\ steps <= i + j
    /\ pc = "done" =>
         /\ Cardinality(Marked(Left)) = Len(data_a) - Cardinality(SilentSteps)
         /\ Cardinality(Marked(Right)) = Len(data_b) - Cardinality(SilentSteps)

\* Table A held two rows with one key; one met its like in B and was left
\* out, the other was yielded
C17_Witness ==
  /\ pc = "done"
  /\ pks # <<>>
  /\ Len(data_a) = 2
  /\ SameKey(data_a[1], data_a[2])
  /\ Cardinality(SilentSteps) = 1
  /\ Cardinality(Marked(Left)) = 1
  /\ Cardinality(Marked(Right)) >= 1

---------------------------------------------------------------------------
(* C18 *)

\* C18: at every loop step of do() at most one of the two keys is the
\* sentinel, and a step classified as matched has both cursors in bounds;
\* more generally the step reads data_a[i] only with i < len(A) and
\* data_b[j] only with j < len(B).  This holds for an empty list of key
\* columns too.
C18_RowAccessesInBounds ==
  pc = "loop" /\ LoopCond =>
    /\ ~(pk_a = <<AlwaysGreater>> /\ pk_b = <<AlwaysGreater>>)
    /\ pk_a = <<AlwaysGreater>> <=> i >= Len(data_a)
    /\ pk_b = <<AlwaysGreater>> <=> j >= Len(data_b)
    /\ next_ab => i < Len(data_a) /\ j < Len(data_b)
    /\ ~ListRaises(pk_a, pk_b) =>
         /\ next_a => i < Len(data_a)
         /\ next_b => j < Len(data_b)

\* A loop step under an empty list of key columns with table A exhausted
\* and a row of B left
C18_Witness ==
  /\ pc = "loop"
  /\ pks = <<>>
  /\ Len(data_a) >= 1
  /\ i = Len(data_a)
  /\ j < Len(data_b)
  /\ pk_a = <<AlwaysGreater>>
  /\ pk_b = <<>>
  /\ ~next_ab

---------------------------------------------------------------------------
(* C19 *)

\* C19: the sentinel key is greater than every real key and neither less
\* than nor equal to one, and two sentinel keys are equal to each other:
\* sentinel against sentinel is not greater, not less, and == is true.
C19_SentinelGreatestAndEqualToItself ==
  pc = "loop" =>
    LET key_a == KeyAt(data_a, i)
        key_b == KeyAt(data_b, j)
    IN  /\ i >= Len(data_a) /\ j < Len(data_b) =>
             /\ ListGt(key_a, key_b)
             /\ ~ListLt(key_a, key_b)
             /\ ~ListEq(key_a, key_b)
             /\ ListLt(key_b, key_a)
        /\ i < Len(data_a) /\ j >= Len(data_b) =>
             /\ ListGt(key_b, key_a)
             /\ ~ListLt(key_b, key_a)
             /\ ~ListEq(key_b, key_a)
             /\ ListLt(key_a, key_b)
        /\ i >= Len(data_a) /\ j >= Len(data_b) =>
             /\ ~ListGt(key_a, key_b)
             /\ ~ListLt(key_a, key_b)
             /\ ListEq(key_a, key_b)

====
